---------------------------- MODULE Spec2Model ----------------------------
(***************************************************************************)
(* Winner Bike sales assistant: the /run_chat tool-calling loop of         *)
(* src/main.py, its tool-call extractor and its tools.                     *)
(*                                                                         *)
(* Text is a sequence of atoms (a character or an indivisible word); a     *)
(* Python None is the empty sequence wherever the code only tests          *)
(* truthiness.                                                             *)
(***************************************************************************)
EXTENDS Integers, Sequences, FiniteSets, TLC

(***************************************************************************)
(* Text atoms and JSON values                                              *)
(***************************************************************************)
OPEN  == "<tool_call>"
CLOSE == "</tool_call>"
WS    == " "
QUOTE == "\""

JNull      == [t |-> "null"]
JStr(s)    == [t |-> "str", s |-> s]
JArr(xs)   == [t |-> "arr", xs |-> xs]
\* a dict: key/value pairs in insertion order, keys unique
JObj(kv)   == [t |-> "obj", kv |-> kv]
KV(k, v)   == [k |-> k, v |-> v]

IsDict(j)  == j.t = "obj"
HasKey(j, k) == \E i \in DOMAIN j.kv : j.kv[i].k = k
\* d[k] for a key that is present
Item(j, k) == j.kv[CHOOSE i \in DOMAIN j.kv : j.kv[i].k = k].v
\* d.get(k): None when the key is absent
DictGet(j, k) == IF HasKey(j, k) THEN Item(j, k) ELSE JNull
\* d[k] = v on a dict: an existing key keeps its position
DictSet(kv, k, v) ==
    IF \E i \in DOMAIN kv : kv[i].k = k
    THEN [i \in DOMAIN kv |-> IF kv[i].k = k THEN KV(k, v) ELSE kv[i]]
    ELSE Append(kv, KV(k, v))

(***************************************************************************)
(* json.dumps with the default separators ", " and ": "                    *)
(***************************************************************************)
RECURSIVE json_dumps(_)
RECURSIVE DumpItems(_, _)
DumpItems(xs, isObj) ==
    IF xs = <<>> THEN <<>>
    ELSE LET x    == Head(xs)
             one  == IF isObj
                     THEN <<QUOTE>> \o x.k \o <<QUOTE, ":", WS>> \o json_dumps(x.v)
                     ELSE json_dumps(x)
             rest == DumpItems(Tail(xs), isObj)
         IN  IF Tail(xs) = <<>> THEN one ELSE one \o <<",", WS>> \o rest
json_dumps(j) ==
    CASE j.t = "null" -> <<"null">>
      [] j.t = "str"  -> <<QUOTE>> \o j.s \o <<QUOTE>>
      [] j.t = "arr"  -> <<"[">> \o DumpItems(j.xs, FALSE) \o <<"]">>
      [] j.t = "obj"  -> <<"{">> \o DumpItems(j.kv, TRUE) \o <<"}">>

(***************************************************************************)
(* json.loads: a recursive-descent parse of the whole text.  A parse       *)
(* result is [ok, val, next]; ok = FALSE stands for json.JSONDecodeError.  *)
(***************************************************************************)
ParseFail == [ok |-> FALSE, val |-> JNull, next |-> 0]
ParseOk(v, n) == [ok |-> TRUE, val |-> v, next |-> n]

RECURSIVE SkipWs(_, _)
SkipWs(t, i) == IF i <= Len(t) /\ t[i] = WS THEN SkipWs(t, i + 1) ELSE i

\* the index of the first atom a at or after i, 0 when there is none
IndexFrom(t, a, i) ==
    IF \E j \in i..Len(t) : t[j] = a
    THEN CHOOSE j \in i..Len(t) : t[j] = a /\ \A k \in i..(j - 1) : t[k] # a
    ELSE 0

\* t[i] is the opening quote
ParseString(t, i) ==
    LET j == IndexFrom(t, QUOTE, i + 1)
    IN  IF j = 0 THEN ParseFail ELSE ParseOk(JStr(SubSeq(t, i + 1, j - 1)), j + 1)

RECURSIVE ParseValue(_, _)
RECURSIVE ParseMembers(_, _, _)
RECURSIVE ParseElements(_, _, _)
\* the members of an object after "{" or ","
ParseMembers(t, i0, acc) ==
    LET i == SkipWs(t, i0)
    IN  IF i > Len(t) \/ t[i] # QUOTE THEN ParseFail
        ELSE LET key == ParseString(t, i)
                 c   == SkipWs(t, key.next)
             IN  IF ~key.ok \/ c > Len(t) \/ t[c] # ":" THEN ParseFail
                 ELSE LET v == ParseValue(t, c + 1)
                          e == SkipWs(t, v.next)
                      IN  IF ~v.ok \/ e > Len(t) THEN ParseFail
                          ELSE LET acc2 == DictSet(acc, key.val.s, v.val)
                               IN  IF t[e] = "," THEN ParseMembers(t, e + 1, acc2)
                                   ELSE IF t[e] = "}" THEN ParseOk(JObj(acc2), e + 1)
                                   ELSE ParseFail
\* the elements of an array after "[" or ","
ParseElements(t, i0, acc) ==
    LET v == ParseValue(t, i0)
        e == SkipWs(t, v.next)
    IN  IF ~v.ok \/ e > Len(t) THEN ParseFail
        ELSE IF t[e] = "," THEN ParseElements(t, e + 1, Append(acc, v.val))
        ELSE IF t[e] = "]" THEN ParseOk(JArr(Append(acc, v.val)), e + 1)
        ELSE ParseFail
ParseValue(t, i0) ==
    LET i == SkipWs(t, i0)
    IN  IF i > Len(t) THEN ParseFail
        ELSE CASE t[i] = QUOTE  -> ParseString(t, i)
               [] t[i] = "null" -> ParseOk(JNull, i + 1)
               [] t[i] = "{"    ->
                    LET k == SkipWs(t, i + 1)
                    IN  IF k <= Len(t) /\ t[k] = "}" THEN ParseOk(JObj(<<>>), k + 1)
                        ELSE ParseMembers(t, i + 1, <<>>)
               [] t[i] = "["    ->
                    LET k == SkipWs(t, i + 1)
                    IN  IF k <= Len(t) /\ t[k] = "]" THEN ParseOk(JArr(<<>>), k + 1)
                        ELSE ParseElements(t, i + 1, <<>>)
               [] OTHER         -> ParseFail
\* [ok, val]: ok = FALSE when json.loads raises
json_loads(t) ==
    LET r == ParseValue(t, 1)
    IN  IF r.ok /\ SkipWs(t, r.next) > Len(t)
        THEN [ok |-> TRUE, val |-> r.val]
        ELSE [ok |-> FALSE, val |-> JNull]

(***************************************************************************)
(* Python string helpers                                                   *)
(***************************************************************************)
\* str.lower() on one atom
LowerAtom(c) ==
    CASE c = "P" -> "p" [] c = "C" -> "c" [] c = "X" -> "x"
      [] c = "A" -> "a" [] c = "L" -> "l"
      [] c = "User" -> "user" [] c = "Assistant" -> "assistant"
      [] OTHER -> c
Lower(s) == [i \in DOMAIN s |-> LowerAtom(s[i])]

RECURSIVE Strip(_)
\* str.strip()
Strip(s) ==
    IF s # <<>> /\ Head(s) = WS THEN Strip(Tail(s))
    ELSE IF s # <<>> /\ s[Len(s)] = WS THEN Strip(SubSeq(s, 1, Len(s) - 1))
    ELSE s

Digit == <<"0", "1", "2", "3", "4", "5", "6", "7", "8", "9">>
RECURSIVE IntText(_)
\* str(n) of a natural number
IntText(n) == IF n < 10 THEN <<Digit[n + 1]>>
              ELSE IntText(n \div 10) \o <<Digit[(n % 10) + 1]>>

\* what an f-string shows for a value handed to it as {value}
FormatValue(j) == CASE j.t = "str"  -> j.s
                    [] j.t = "null" -> <<"None">>
                    [] OTHER        -> json_dumps(j)

(***************************************************************************)
(* Tool-call extraction, src/main.py                                       *)
(***************************************************************************)
CALL_FAKE_ID == <<"call_fake_123">>

\* the constructor keeping str(args), Python's quoting, for the arguments
FakeToolCall_Repr(name, args) ==
    [id |-> CALL_FAKE_ID, type |-> "function",
     function |-> [name |-> name,
                   arguments |-> [i \in DOMAIN json_dumps(args) |->
                                     IF json_dumps(args)[i] = QUOTE THEN "'"
                                     ELSE json_dumps(args)[i]]]]

\* the ad hoc object that mimics a native tool call
FakeToolCall(name, args) ==
    [id |-> CALL_FAKE_ID, type |-> "function",
     function |-> [name |-> name, arguments |-> json_dumps(args)]]

\* the search with the greedy group (.*): up to the last closing tag
SearchToolCallBlock_Greedy(content) ==
    LET i == IndexFrom(content, OPEN, 1)
        closes == {j \in (i + 1)..Len(content) : content[j] = CLOSE}
    IN  IF i = 0 \/ closes = {} THEN [found |-> FALSE, group |-> <<>>]
        ELSE [found |-> TRUE,
              group |-> SubSeq(content, i + 1,
                               (CHOOSE j \in closes : \A k \in closes : k <= j) - 1)]

\* the search that takes a missing closing tag for the end of the text
SearchToolCallBlock_ToEnd(content) ==
    LET i == IndexFrom(content, OPEN, 1)
        j == IF i = 0 THEN 0 ELSE IndexFrom(content, CLOSE, i + 1)
    IN  IF i = 0 THEN [found |-> FALSE, group |-> <<>>]
        ELSE [found |-> TRUE,
              group |-> SubSeq(content, i + 1, IF j = 0 THEN Len(content) ELSE j - 1)]

\* re.search(r'<tool_call>(.*?)</tool_call>', content, re.DOTALL): the group,
\* [found, group]
SearchToolCallBlock(content) ==
    LET i == IndexFrom(content, OPEN, 1)
        j == IF i = 0 THEN 0 ELSE IndexFrom(content, CLOSE, i + 1)
    IN  IF j = 0 THEN [found |-> FALSE, group |-> <<>>]
        ELSE [found |-> TRUE, group |-> SubSeq(content, i + 1, j - 1)]

\* the value the native path of the extractor yields
NativePath(tool_calls) == <<>>

\* the extractor reading the keys with .get: a missing key gives None
check_tool_call_in_text_Lenient(content, tool_calls) ==
    IF tool_calls = <<>> /\ content # <<>> /\ (\E i \in DOMAIN content : content[i] = OPEN)
    THEN LET match == SearchToolCallBlock(content)
         IN  IF ~match.found THEN <<>>
             ELSE LET tool_data == json_loads(Strip(match.group))
                  IN  IF tool_data.ok /\ IsDict(tool_data.val)
                      THEN <<FakeToolCall(DictGet(tool_data.val, <<"name">>),
                                          DictGet(tool_data.val, <<"arguments">>))>>
                      ELSE <<>>
    ELSE NativePath(tool_calls)

\* None (the empty sequence) or a list of tool calls
check_tool_call_in_text(content, tool_calls) ==
    IF tool_calls = <<>> /\ content # <<>> /\ (\E i \in DOMAIN content : content[i] = OPEN)
    THEN LET match == SearchToolCallBlock(content)
         IN  IF ~match.found THEN <<>>
             ELSE LET tool_data == json_loads(Strip(match.group))
                  IN  IF tool_data.ok /\ IsDict(tool_data.val)
                         /\ HasKey(tool_data.val, <<"name">>)
                         /\ HasKey(tool_data.val, <<"arguments">>)
                      THEN <<FakeToolCall(Item(tool_data.val, <<"name">>),
                                          Item(tool_data.val, <<"arguments">>))>>
                      ELSE <<>>
    ELSE NativePath(tool_calls)

(***************************************************************************)
(* Tools, src/main.py                                                      *)
(***************************************************************************)
LIGHTRAG_TOOL     == JStr(<<"lightrag_tool">>)
CHECK_STOCK_LOGIC == JStr(<<"check_stock_logic">>)

RECURSIVE StockScan_ZeroAvailable(_, _, _)
\* the scan with the stock test `stock >= 0`
StockScan_ZeroAvailable(inventory, model_name, i) ==
    IF i > Len(inventory)
    THEN [raised |-> FALSE,
          val |-> <<"Model: ">> \o FormatValue(model_name) \o <<" not found in inventory.">>]
    ELSE IF model_name.t # "str"
    THEN [raised |-> TRUE, val |-> <<"AttributeError">>]
    ELSE LET item == inventory[i]
         IN  IF Lower(item.product_name) = Lower(model_name.s)
             THEN [raised |-> FALSE,
                   val |-> <<"Model: ">> \o model_name.s \o <<", Price: ">>
                           \o IntText(item.price) \o <<", Stock: ">>
                           \o IntText(item.stock_quantity)]
             ELSE StockScan_ZeroAvailable(inventory, model_name, i + 1)

RECURSIVE StockScan(_, _, _)
\* the for loop of check_stock_logic over the items from position i on
StockScan(inventory, model_name, i) ==
    IF i > Len(inventory)
    THEN [raised |-> FALSE,
          val |-> <<"Model: ">> \o FormatValue(model_name) \o <<" not found in inventory.">>]
    ELSE IF model_name.t # "str"
    THEN [raised |-> TRUE, val |-> <<"AttributeError">>]     \* model_name.lower()
    ELSE LET item == inventory[i]
         IN  IF Lower(item.product_name) = Lower(model_name.s)
             THEN IF item.stock_quantity > 0
                  THEN [raised |-> FALSE,
                        val |-> <<"Model: ">> \o model_name.s \o <<", Price: ">>
                                \o IntText(item.price) \o <<", Stock: ">>
                                \o IntText(item.stock_quantity)]
                  ELSE [raised |-> FALSE,
                        val |-> <<"{ model: ">> \o item.product_name
                                \o <<", status: Out of Stock, SYSTEM_INSTRUCTION: ",
                                     "call lightrag_tool with query ">>
                                \o item.product_name \o <<" competitors">>]
             ELSE StockScan(inventory, model_name, i + 1)

\* check_stock_logic(model_name) over the inventory the global names now
check_stock_logic(inventory, model_name) == StockScan(inventory, model_name, 1)

(***************************************************************************)
(* The tools of src/lib/tools.py                                           *)
(***************************************************************************)
UpperAtom(c) ==
    CASE c = "p" -> "P" [] c = "c" -> "C" [] c = "x" -> "X"
      [] c = "a" -> "A" [] c = "l" -> "L"
      [] OTHER -> c
Upper(s) == [i \in DOMAIN s |-> UpperAtom(s[i])]

\* the Thai texts and the emoji are written in ASCII words
LISTING_HEADER == <<"The shop has these now:\n">>

RECURSIVE InventoryLines(_, _)
\* "\n".join(inventory_list), one "- name: price baht (status)" per item
InventoryLines(inventory_data, i) ==
    IF i > Len(inventory_data) THEN <<>>
    ELSE LET inv_item == inventory_data[i]
             status == IF inv_item.stock_quantity > 0 THEN "in stock" ELSE "sold out"
         IN  <<"- ">> \o inv_item.product_name \o <<": ">> \o IntText(inv_item.price)
             \o <<" baht (", status, ")">>
             \o (IF i < Len(inventory_data) THEN <<"\n">> ELSE <<>>)
             \o InventoryLines(inventory_data, i + 1)

RECURSIVE ToolsStockScan(_, _, _)
\* the for loop of the check_stock_logic closure over the items from i on
ToolsStockScan(inventory_data, model_name, i) ==
    IF i > Len(inventory_data)
    THEN [raised |-> FALSE,
          val |-> <<"Not Found | Model: ">> \o FormatValue(model_name)
                  \o <<" not in inventory.">>]
    ELSE IF model_name.t # "str"
    THEN [raised |-> TRUE, val |-> <<"AttributeError">>]     \* model_name.lower()
    ELSE LET item == inventory_data[i]
         IN  IF Lower(item.product_name) = Lower(model_name.s)
             THEN IF item.stock_quantity > 0
                  THEN [raised |-> FALSE,
                        val |-> <<"Available | Model: ">> \o model_name.s
                                \o <<" | Price: ">> \o IntText(item.price)
                                \o <<" baht | Stock: ">> \o IntText(item.stock_quantity)
                                \o <<" units">>]
                  ELSE [raised |-> FALSE,
                        val |-> <<"Out of Stock | Model: ">> \o model_name.s
                                \o <<" | INSTRUCTION: Call lightrag_tool(query='">>
                                \o model_name.s \o <<" alternatives') immediately.">>]
             ELSE IF Upper(model_name.s) = <<"A", "L", "L">>
             THEN [raised |-> FALSE,
                   val |-> LISTING_HEADER \o InventoryLines(inventory_data, 1)]
             ELSE ToolsStockScan(inventory_data, model_name, i + 1)

\* create_check_stock_logic(inventory_data)(model_name)
create_check_stock_logic(inventory_data, model_name) ==
    ToolsStockScan(inventory_data, model_name, 1)

\* res.get(k, default) inside the f-string
GetOr(res, k, default) == IF HasKey(res, k) THEN FormatValue(Item(res, k)) ELSE default

RECURSIVE FormatResults(_, _)
\* the numbered entries of the results from position i on
FormatResults(results_list, i) ==
    IF i > Len(results_list) THEN <<>>
    ELSE LET res == results_list[i]
         IN  IntText(i) \o <<". ">> \o GetOr(res, <<"title">>, <<"No Title">>)
             \o <<"\n   content: ">> \o GetOr(res, <<"body">>, <<"No Content">>)
             \o <<"\n   link: ">> \o GetOr(res, <<"href">>, <<"#">>) \o <<"\n\n">>
             \o FormatResults(results_list, i + 1)

SEARCH_HEADER    == <<"Web Search Results:\n">>
SEARCH_NOTHING   == <<"No results found. System Hint: do not search the same words again">>
SEARCH_FAILED    == <<"search failed: ">>

\* web_search_tool without its try/except
web_search_tool_NoTry(search) ==
    IF search.raised THEN [raised |-> TRUE, val |-> search.e]
    ELSE IF search.results # <<>>
    THEN [raised |-> FALSE, val |-> SEARCH_HEADER \o FormatResults(search.results, 1)]
    ELSE [raised |-> FALSE, val |-> SEARCH_NOTHING]

\* web_search_tool(query): search is what DDGS did, an exception e (possibly
\* after some results) or the results it yielded
web_search_tool(search) ==
    IF search.raised THEN [raised |-> FALSE, val |-> SEARCH_FAILED \o search.e]
    ELSE IF search.results # <<>>
    THEN [raised |-> FALSE, val |-> SEARCH_HEADER \o FormatResults(search.results, 1)]
    ELSE [raised |-> FALSE, val |-> SEARCH_NOTHING]

\* the FakeToolCall class of the tools.py copy of the extractor
tools_FakeToolCall(name, args) ==
    [id |-> CALL_FAKE_ID, type |-> "function",
     function |-> [name |-> name, arguments |-> json_dumps(args)]]

\* the copy handing a non-empty native list back
tools_check_tool_call_in_text_NativeKept(content, tool_calls) ==
    IF tool_calls # <<>> THEN tool_calls
    ELSE IF content # <<>> /\ (\E i \in DOMAIN content : content[i] = OPEN)
    THEN LET match == SearchToolCallBlock(content)
         IN  IF ~match.found THEN <<>>
             ELSE LET tool_data == json_loads(Strip(match.group))
                  IN  IF tool_data.ok /\ IsDict(tool_data.val)
                         /\ HasKey(tool_data.val, <<"name">>)
                         /\ HasKey(tool_data.val, <<"arguments">>)
                      THEN <<tools_FakeToolCall(Item(tool_data.val, <<"name">>),
                                                Item(tool_data.val, <<"arguments">>))>>
                      ELSE <<>>
    ELSE <<>>

\* check_tool_call_in_text of src/lib/tools.py: None (the empty sequence) or a
\* list of one synthesized call
tools_check_tool_call_in_text(content, tool_calls) ==
    IF tool_calls = <<>> /\ content # <<>> /\ (\E i \in DOMAIN content : content[i] = OPEN)
    THEN LET match == SearchToolCallBlock(content)
         IN  IF ~match.found THEN <<>>
             ELSE LET tool_data == json_loads(Strip(match.group))
                  IN  IF tool_data.ok /\ IsDict(tool_data.val)
                         /\ HasKey(tool_data.val, <<"name">>)
                         /\ HasKey(tool_data.val, <<"arguments">>)
                      THEN <<tools_FakeToolCall(Item(tool_data.val, <<"name">>),
                                                Item(tool_data.val, <<"arguments">>))>>
                      ELSE <<>>
    ELSE <<>>

(***************************************************************************)
(* Transcript messages                                                     *)
(***************************************************************************)
SYSTEM_PROMPT == <<"SYSTEM_PROMPT">>

RECURSIVE HistoryLines(_)
HistoryLines(chat) ==
    IF chat = <<>> THEN <<>>
    ELSE LET msg == Head(chat)
             display_role == IF Lower(msg.role) = <<"user">> THEN "User" ELSE "AI"
         IN  <<display_role, ": ">> \o msg.content \o <<"\n">> \o HistoryLines(Tail(chat))

create_chat_history(chat) ==
    IF chat # <<>>
    THEN <<"--- Conversation History ---\n">> \o HistoryLines(chat)
         \o <<"----------------------------\n">>
    ELSE <<>>

\* the seed without the history message
SeedMessages_NoHistory(query) ==
    << [role |-> "system", content |-> SYSTEM_PROMPT],
       [role |-> "user", content |-> query.message] >>

SeedMessages(query) ==
    << [role |-> "system", content |-> SYSTEM_PROMPT],
       [role |-> "user",
        content |-> <<"Here is the chat history:">> \o create_chat_history(query.chat_history)],
       [role |-> "user", content |-> query.message] >>

\* the tool-role message with the tool's name where the call id belongs
ToolMessage_NameAsId(tool_call, tool_name, function_response) ==
    [role |-> "tool", tool_call_id |-> tool_name.s, name |-> tool_name,
     content |-> function_response]

ToolMessage(tool_call, tool_name, function_response) ==
    [role |-> "tool", tool_call_id |-> tool_call.id, name |-> tool_name,
     content |-> function_response]

\* str(None) inside the f-string when the completion has no text
RefineInstruction(content) ==
    <<"Below is accurate raw information (Draft): ">>
    \o (IF content = <<>> THEN <<"None">> ELSE content)
    \o <<" Task: Rewrite the draft into a Thai customer chat response.">>

RefineMessage(content) == [role |-> "user", content |-> RefineInstruction(content)]

\* messages.append(m), with the new message put in front of the transcript
AppendMessage_InFront(msgs, m) == <<m>> \o msgs
\* messages.append(m)
AppendMessage(msgs, m) == Append(msgs, m)

(***************************************************************************)
(* The knowledge-base endpoints of src/main.py                             *)
(***************************************************************************)
CITATIONS   == {"[1]", "(1)"}
CUT_MARKERS == {"### References", "ref-th:", "source-th:"}

RECURSIVE CutAt(_, _)
\* re.sub(marker + '.*', '', text, flags=re.DOTALL): all from the marker on
CutAt(text, markers) ==
    IF text = <<>> \/ Head(text) \in markers THEN <<>>
    ELSE <<Head(text)>> \o CutAt(Tail(text), markers)

RECURSIVE CutUrls(_, _)
\* re.sub(r'URL:.*', '', text): from URL: to the end of its line
CutUrls(text, inUrl) ==
    IF text = <<>> THEN <<>>
    ELSE IF Head(text) = "\n" THEN <<"\n">> \o CutUrls(Tail(text), FALSE)
    ELSE IF inUrl \/ Head(text) = "URL:" THEN CutUrls(Tail(text), TRUE)
    ELSE <<Head(text)>> \o CutUrls(Tail(text), FALSE)

RECURSIVE StripSpace(_)
\* str.strip() over spaces and line ends
StripSpace(s) ==
    IF s # <<>> /\ Head(s) \in {WS, "\n"} THEN StripSpace(Tail(s))
    ELSE IF s # <<>> /\ s[Len(s)] \in {WS, "\n"} THEN StripSpace(SubSeq(s, 1, Len(s) - 1))
    ELSE s

clean_Reference(text) ==
    StripSpace(SelectSeq(CutUrls(CutAt(text, CUT_MARKERS), FALSE),
                         LAMBDA c : c \notin CITATIONS))

\* the prompt of an endpoint: the formatted history, the question, the
\* endpoint's instruction
EndpointPrompt(request, instruction) ==
    create_chat_history(request.chat_history) \o <<"Current Question: ">>
    \o request.message \o <<instruction>>

HttpOk(prompt, result) ==
    [status |-> 200, response |-> clean_Reference(result), prompt |-> prompt]
HTTPException(prompt, e) == [status |-> 500, detail |-> e, prompt |-> prompt]
Escaped(prompt, e) == [status |-> 0, detail |-> e, prompt |-> prompt]

\* /query without its except clause
query_endpoint_NoExcept(request, kb) ==
    LET prompt == EndpointPrompt(request, "Instruction: confirm availability")
    IN  IF kb.raised THEN Escaped(prompt, kb.val) ELSE HttpOk(prompt, kb.val)

\* POST /query; kb is what rag.aquery does with the prompt
query_endpoint(request, kb) ==
    LET prompt == EndpointPrompt(request, "Instruction: confirm availability")
    IN  IF kb.raised THEN HTTPException(prompt, kb.val) ELSE HttpOk(prompt, kb.val)

\* POST /query_sale
query_sale_endpoint(request, kb) ==
    LET prompt == EndpointPrompt(request, "Instruction: suggest alternatives")
    IN  IF kb.raised THEN HTTPException(prompt, kb.val) ELSE HttpOk(prompt, kb.val)

\* POST /explain_product
explain_product_endpoint(request, kb) ==
    LET prompt == EndpointPrompt(request, "Instruction: explain the product")
    IN  IF kb.raised THEN HTTPException(prompt, kb.val) ELSE HttpOk(prompt, kb.val)

(***************************************************************************)
(* Inputs: requests and the answers of the external services               *)
(***************************************************************************)
MAX_LOOP   == 5
MaxStock   == 1     \* stock quantities 0..MaxStock
MaxHistory == 1     \* prior chat messages per request
MaxNative  == 2     \* native tool calls per assistant message

Requests == {1, 2}

PC == <<"P", "C">>

Inventories ==
    {<<>>} \cup {<<[product_name |-> PC, stock_quantity |-> q, price |-> 98]>> :
                 q \in 0..MaxStock}

Histories ==
    {[i \in 1..n |-> [role |-> IF i % 2 = 1 THEN <<"User">> ELSE <<"assistant">>,
                      content |-> <<"hi">>]] : n \in 0..MaxHistory}

RunChatRequest(inventory, history) ==
    [message |-> <<"PC", WS, "in", WS, "stock?">>,
     Data_model_stock_price |-> inventory, chat_history |-> history]

Args(key, value) == JObj(<<KV(<<key>>, JStr(value))>>)
ToolData(name, args) ==
    JObj(<<KV(<<"name">>, JStr(<<name>>)), KV(<<"arguments">>, args)>>)

AssistantMessage(content, tool_calls) ==
    [role |-> "assistant", content |-> content, tool_calls |-> tool_calls]

\* an assistant message whose text carries a tool call as markup
Markup(body) == AssistantMessage(<<"Let", WS, "me", WS, "check.", OPEN>> \o body \o <<CLOSE>>, <<>>)

NativeToolCall(i, name, args) ==
    [id |-> <<"call_", Digit[i + 1]>>, type |-> "function",
     function |-> [name |-> JStr(<<name>>), arguments |-> json_dumps(args)]]

NativeKinds ==
    { [name |-> "lightrag_tool",     args |-> Args("query", PC)],
      [name |-> "check_stock_logic", args |-> Args("model_name", PC)],
      [name |-> "web_search_tool",   args |-> Args("query", PC)] }

NativeBatches ==
    UNION {{[i \in 1..n |-> NativeToolCall(i, ks[i].name, ks[i].args)] :
            ks \in [1..n -> NativeKinds]} : n \in 1..MaxNative}

PlainAnswer    == AssistantMessage(<<"We", WS, "have", WS, "it.">>, <<>>)
MarkupLightrag == Markup(json_dumps(ToolData("lightrag_tool", Args("query", PC))))
MarkupStock    == Markup(json_dumps(ToolData("check_stock_logic", Args("model_name", <<"p", "c">>))))

\* markup whose block is no JSON, or JSON without the "name" and "arguments" keys
MalformedAnswers ==
    {Markup(<<"{", QUOTE, "name", QUOTE, ":", WS, "oops">>),
     Markup(json_dumps(JObj(<<KV(<<"name">>, LIGHTRAG_TOOL)>>))),
     Markup(json_dumps(JObj(<<KV(<<"arguments">>, Args("query", PC))>>))),
     Markup(json_dumps(JArr(<<LIGHTRAG_TOOL>>)))}

\* what the completion service may answer to a tool-offering completion
Answers ==
    {PlainAnswer, MarkupLightrag, MarkupStock}
    \cup {AssistantMessage(<<>>, b) : b \in NativeBatches}
    \cup {Markup(json_dumps(ToolData("check_stock_logic", Args("model_name", <<"X">>)))),
          Markup(json_dumps(ToolData("check_stock_logic", JObj(<<>>)))),
          Markup(json_dumps(ToolData("lightrag_tool", JArr(<<>>)))),
          Markup(json_dumps(ToolData("web_search_tool", Args("query", PC)))),
          AssistantMessage(<<OPEN>> \o json_dumps(ToolData("lightrag_tool", Args("query", PC))), <<>>),
          AssistantMessage(<<>>, <<>>)}
    \cup MalformedAnswers

ConcAnswers == {PlainAnswer, MarkupLightrag, MarkupStock}

RagResults == {<<"PC", WS, "specs">>}
FinalTexts == {<<"final", WS, "answer">>}

(***************************************************************************)
(* State                                                                   *)
(***************************************************************************)
VARIABLES
    product_stock_price,  \* the module global of src/main.py
    running,              \* the request the event loop is running, 0 for none
    backend,              \* the answers the completion service gives in this run
    req,                  \* req[r]: the RunChatRequest of request r
    pc,                   \* pc[r]: where request r is in run_chat
    count, messages, response_message, tool_calls,
    idx,                  \* position of the for loop in tool_calls
    result,               \* what run_chat handed to its caller
    ncompl,               \* history: tool-offering completions requested
    answered,             \* history: the assistant messages the completions returned
    executed,             \* history: the tool calls whose handler was invoked
    stockReads,           \* history: the inventories check_stock_logic read
    fncall                \* the last call of a function outside run_chat: [fn, arg, out]

vars == <<product_stock_price, running, backend, req, pc, count, messages,
          response_message, tool_calls, idx, result, ncompl, answered, executed,
          stockReads, fncall>>

\* the state of the run_chat requests
runvars == <<product_stock_price, running, backend, req, pc, count, messages,
             response_message, tool_calls, idx, result, ncompl, answered, executed,
             stockReads>>

NoCall          == [fn |-> "none"]
NoResult        == [kind |-> "running",   src |-> "",  val |-> <<>>]
Response(text)  == [kind |-> "response",  src |-> "",  val |-> text]
ReturnedNone    == [kind |-> "none",      src |-> "",  val |-> <<>>]
Raised(src)     == [kind |-> "exception", src |-> src, val |-> <<>>]

InitWith(active, reqs, answers) ==
    /\ product_stock_price = <<>>
    /\ running = 0
    /\ backend = answers
    /\ req = reqs
    /\ pc = [r \in Requests |-> IF r \in active THEN "pending" ELSE "absent"]
    /\ count = [r \in Requests |-> 0]
    /\ messages = [r \in Requests |-> <<>>]
    /\ response_message = [r \in Requests |-> PlainAnswer]
    /\ tool_calls = [r \in Requests |-> <<>>]
    /\ idx = [r \in Requests |-> 1]
    /\ result = [r \in Requests |-> NoResult]
    /\ ncompl = [r \in Requests |-> 0]
    /\ answered = [r \in Requests |-> <<>>]
    /\ executed = [r \in Requests |-> <<>>]
    /\ stockReads = [r \in Requests |-> <<>>]
    /\ fncall = NoCall

\* one request
Init ==
    \E inv \in Inventories, h \in Histories :
        InitWith({1}, [r \in Requests |-> RunChatRequest(inv, h)], Answers)

\* a rank that tells the inventories of Inventories apart
InvRank(inv) == IF inv = <<>> THEN 0 ELSE 1 + inv[1].stock_quantity

\* two requests with different inventory snapshots; the request ids are
\* interchangeable, so each pair of snapshots is taken in one order
InitConc ==
    \E inv1 \in Inventories, inv2 \in Inventories :
        /\ InvRank(inv1) > InvRank(inv2)
        /\ InitWith(Requests,
                    [r \in Requests |-> RunChatRequest(IF r = 1 THEN inv1 ELSE inv2, <<>>)],
                    ConcAnswers)

(***************************************************************************)
(* run_chat, src/main.py                                                   *)
(***************************************************************************)
\* the while test, off by one
LoopCond_Inclusive(c) == c <= MAX_LOOP
\* the while test
LoopCond(c) == c < MAX_LOOP

\* the request leaves run_chat: it returns or raises, and frees the event loop
Leave(r, outcome) ==
    /\ pc' = [pc EXCEPT ![r] = "done"]
    /\ result' = [result EXCEPT ![r] = outcome]
    /\ running' = 0

\* the event loop takes up the request and runs it up to the while loop
Start(r) ==
    /\ pc[r] = "pending"
    /\ running = 0
    /\ running' = r
    /\ product_stock_price' = req[r].Data_model_stock_price
    /\ messages' = [messages EXCEPT ![r] = SeedMessages(req[r])]
    /\ count' = [count EXCEPT ![r] = 0]
    /\ pc' = [pc EXCEPT ![r] = "loop"]
    /\ UNCHANGED <<fncall, backend, req, response_message, tool_calls, idx, result,
                   ncompl,
                   answered, executed, stockReads>>

\* one pass of the while loop up to the for loop or the refine instruction
Complete(r) ==
    /\ pc[r] = "loop"
    /\ running = r
    /\ LoopCond(count[r])
    /\ count' = [count EXCEPT ![r] = @ + 1]
    /\ ncompl' = [ncompl EXCEPT ![r] = @ + 1]
    /\ \E m \in backend :
         LET calls == check_tool_call_in_text(m.content, m.tool_calls)
         IN  /\ response_message' = [response_message EXCEPT ![r] = m]
             /\ answered' = [answered EXCEPT ![r] = Append(@, m)]
             /\ tool_calls' = [tool_calls EXCEPT ![r] = calls]
             /\ IF calls # <<>>
                THEN /\ messages' = [messages EXCEPT ![r] = AppendMessage(@, m)]
                     /\ idx' = [idx EXCEPT ![r] = 1]
                     /\ pc' = [pc EXCEPT ![r] = "exec"]
                ELSE /\ messages' = [messages EXCEPT ![r] =
                                       AppendMessage(@, RefineMessage(m.content))]
                     /\ idx' = idx
                     /\ pc' = [pc EXCEPT ![r] = "finalize"]
    /\ UNCHANGED <<fncall, product_stock_price, running, backend, req, result, executed,
                   stockReads>>

\* the tool-offering completion call raises
CompletionFails(r) ==
    /\ pc[r] = "loop"
    /\ running = r
    /\ LoopCond(count[r])
    /\ count' = [count EXCEPT ![r] = @ + 1]
    /\ ncompl' = [ncompl EXCEPT ![r] = @ + 1]
    /\ Leave(r, Raised("completion"))
    /\ UNCHANGED <<fncall, product_stock_price, backend, req, messages, response_message,
                   tool_calls, idx, answered, executed, stockReads>>

\* the while test fails: run_chat falls off its end
LoopExit(r) ==
    /\ pc[r] = "loop"
    /\ running = r
    /\ ~LoopCond(count[r])
    /\ Leave(r, ReturnedNone)
    /\ UNCHANGED <<fncall, product_stock_price, backend, req, count, messages, response_message,
                   tool_calls, idx, ncompl, answered, executed, stockReads>>

tool_call(r)     == tool_calls[r][idx[r]]
tool_name(r)     == tool_call(r).function.name
function_args(r) == json_loads(tool_call(r).function.arguments)

\* the for loop moves on; after the last call the while loop continues
NextCall(r) ==
    /\ idx' = [idx EXCEPT ![r] = @ + 1]
    /\ pc' = [pc EXCEPT ![r] = IF idx[r] + 1 > Len(tool_calls[r]) THEN "loop" ELSE "exec"]

\* the body of the for loop for the call at idx, up to its await or its end
ExecTool(r) ==
    /\ pc[r] = "exec"
    /\ running = r
    /\ IF ~function_args(r).ok
       THEN \* json.loads raises
            /\ Leave(r, Raised("arguments"))
            /\ UNCHANGED <<messages, idx, executed, stockReads>>
       ELSE IF tool_name(r) = LIGHTRAG_TOOL
       THEN IF ~IsDict(function_args(r).val)
            THEN \* function_args.get raises
                 /\ Leave(r, Raised("arguments"))
                 /\ UNCHANGED <<messages, idx, executed, stockReads>>
            ELSE \* await lightrag_tool(...): the event loop is free
                 /\ pc' = [pc EXCEPT ![r] = "await_rag"]
                 /\ running' = 0
                 /\ executed' = [executed EXCEPT ![r] = Append(@, tool_call(r))]
                 /\ UNCHANGED <<messages, idx, result, stockReads>>
       ELSE IF tool_name(r) = CHECK_STOCK_LOGIC
       THEN IF ~IsDict(function_args(r).val)
            THEN /\ Leave(r, Raised("arguments"))
                 /\ UNCHANGED <<messages, idx, executed, stockReads>>
            ELSE LET function_response ==
                         check_stock_logic(product_stock_price,
                                           DictGet(function_args(r).val, <<"model_name">>))
                 IN  /\ executed' = [executed EXCEPT ![r] = Append(@, tool_call(r))]
                     /\ stockReads' = [stockReads EXCEPT ![r] = Append(@, product_stock_price)]
                     /\ IF function_response.raised
                        THEN /\ Leave(r, Raised("tool"))
                             /\ UNCHANGED <<messages, idx>>
                        ELSE /\ messages' = [messages EXCEPT ![r] =
                                   AppendMessage(@, ToolMessage(tool_call(r), tool_name(r),
                                                         function_response.val))]
                             /\ NextCall(r)
                             /\ UNCHANGED <<running, result>>
       ELSE \* no branch for this name: nothing is appended
            /\ NextCall(r)
            /\ UNCHANGED <<running, messages, result, executed, stockReads>>
    /\ UNCHANGED <<fncall, product_stock_price, backend, req, count, response_message,
                   tool_calls, ncompl, answered>>

\* the knowledge base answers and the event loop resumes the request
RagReturn(r) ==
    /\ pc[r] = "await_rag"
    /\ running = 0
    /\ running' = r
    /\ \E function_response \in RagResults :
         messages' = [messages EXCEPT ![r] =
                        AppendMessage(@, ToolMessage(tool_call(r), tool_name(r), function_response))]
    /\ NextCall(r)
    /\ UNCHANGED <<fncall, product_stock_price, backend, req, count, response_message,
                   tool_calls, result, ncompl, answered, executed, stockReads>>

\* the knowledge-base query raises
RagFails(r) ==
    /\ pc[r] = "await_rag"
    /\ running = 0
    /\ Leave(r, Raised("tool"))
    /\ UNCHANGED <<fncall, product_stock_price, backend, req, count, messages, response_message,
                   tool_calls, idx, ncompl, answered, executed, stockReads>>

\* the finalizer's completion returns and run_chat returns its text
Finalize(r) ==
    /\ pc[r] = "finalize"
    /\ running = r
    /\ \E final_response \in FinalTexts : Leave(r, Response(final_response))
    /\ UNCHANGED <<fncall, product_stock_price, backend, req, count, messages, response_message,
                   tool_calls, idx, ncompl, answered, executed, stockReads>>

\* the finalizer's completion raises
FinalizeFails(r) ==
    /\ pc[r] = "finalize"
    /\ running = r
    /\ Leave(r, Raised("finalizer"))
    /\ UNCHANGED <<fncall, product_stock_price, backend, req, count, messages, response_message,
                   tool_calls, idx, ncompl, answered, executed, stockReads>>

Next ==
    \E r \in Requests :
        \/ Start(r)
        \/ Complete(r)
        \/ CompletionFails(r)
        \/ LoopExit(r)
        \/ ExecTool(r)
        \/ RagReturn(r)
        \/ RagFails(r)
        \/ Finalize(r)
        \/ FinalizeFails(r)

Spec     == Init /\ [][Next]_vars
SpecConc == InitConc /\ [][Next]_vars

(***************************************************************************)
(* llm_model_func, src/lib/llm_model.py.  gemini and typhoon are what the  *)
(* two model services do when called: [raised, val].  The result keeps     *)
(* the model calls made, in order.                                         *)
(***************************************************************************)
KEYWORD_MARKERS ==
    {"Given the following text, extract", "Identify the high-level keywords"}
SYSTEM_PROMPT_FOR_GEMINI == <<"You are an expert in analyzing text">>
GEMINI_INSTRUCTION == "Please read the following extensive context carefully"
SYSTEM_PROMPT_FOR_TYPHOON == <<"You are a Technical Motorcycle & Parts Consultant">>
KEYWORD_ERROR == <<"Error in keyword extraction">>
\* the Thai apology, in ASCII words
LLM_APOLOGY == <<"Sorry, the system is down for a moment">>

\* the router test on the flag alone
is_keyword_task_FlagOnly(keyword_extraction, system_prompt) == keyword_extraction

\* keyword_extraction is True, or the system prompt holds a marker phrase
is_keyword_task(keyword_extraction, system_prompt) ==
    \/ keyword_extraction
    \/ /\ system_prompt # <<>>
       /\ \E i \in DOMAIN system_prompt : system_prompt[i] \in KEYWORD_MARKERS

ModelCall(model, prompt, system_prompt) ==
    [model |-> model, prompt |-> prompt, system_prompt |-> system_prompt]

\* the gemini call of the keyword branch
KeywordCall(prompt) == ModelCall("gemini", prompt, SYSTEM_PROMPT_FOR_GEMINI)
\* the draft call: the context (None reads as "") and the instruction
DraftCall(prompt, system_prompt) ==
    ModelCall("gemini", prompt, system_prompt \o <<"\n\n", GEMINI_INSTRUCTION>>)
\* the refinement call over the draft
RefineCall(draft_response) ==
    ModelCall("typhoon", RefineInstruction(draft_response), SYSTEM_PROMPT_FOR_TYPHOON)

Returned(val, calls) == [raised |-> FALSE, val |-> val, calls |-> calls]

\* llm_model_func without its except clauses
llm_model_func_NoExcept(prompt, system_prompt, keyword_extraction, gemini, typhoon) ==
    IF is_keyword_task(keyword_extraction, system_prompt)
    THEN [raised |-> gemini.raised, val |-> gemini.val, calls |-> <<KeywordCall(prompt)>>]
    ELSE IF gemini.raised
    THEN [raised |-> TRUE, val |-> gemini.val, calls |-> <<DraftCall(prompt, system_prompt)>>]
    ELSE [raised |-> typhoon.raised, val |-> typhoon.val,
          calls |-> <<DraftCall(prompt, system_prompt), RefineCall(gemini.val)>>]

llm_model_func(prompt, system_prompt, keyword_extraction, gemini, typhoon) ==
    IF is_keyword_task(keyword_extraction, system_prompt)
    THEN IF gemini.raised
         THEN Returned(KEYWORD_ERROR, <<KeywordCall(prompt)>>)
         ELSE Returned(gemini.val, <<KeywordCall(prompt)>>)
    ELSE IF gemini.raised
    THEN Returned(LLM_APOLOGY, <<DraftCall(prompt, system_prompt)>>)
    ELSE IF typhoon.raised
    THEN Returned(LLM_APOLOGY, <<DraftCall(prompt, system_prompt), RefineCall(gemini.val)>>)
    ELSE Returned(typhoon.val, <<DraftCall(prompt, system_prompt), RefineCall(gemini.val)>>)

(***************************************************************************)
(* Calls of the functions beside run_chat: the extractor, the two stock    *)
(* tools, web_search_tool and the knowledge-base endpoints.  Each action   *)
(* is one call on inputs drawn from the sets below; fncall keeps the       *)
(* function, its input and what it returned.  A behaviour makes one call.  *)
(***************************************************************************)
MaxSegments == 3    \* pieces of text an assistant message is made of
MaxItems    == 2    \* items of an inventory
MaxResults  == 2    \* results the search backend yields

\* the JSON objects of the well-formed blocks
GoodBlocks ==
    {ToolData("lightrag_tool", Args("query", PC)),
     ToolData("check_stock_logic", Args("model_name", PC))}

\* the pieces: plain text, a lone opening or closing tag, a block whose body
\* is no JSON, a block whose object lacks "arguments", a well-formed block
Segments ==
    {[kind |-> k, data |-> JNull] : k \in {"text", "open", "close", "bad", "noargs"}}
    \cup {[kind |-> "good", data |-> d] : d \in GoodBlocks}

SegmentText(seg) ==
    CASE seg.kind = "text"   -> <<"Let", WS, "me", WS, "check.">>
      [] seg.kind = "open"   -> <<OPEN>>
      [] seg.kind = "close"  -> <<CLOSE>>
      [] seg.kind = "bad"    -> <<OPEN, "{", QUOTE, "name", QUOTE, ":", WS, "oops", CLOSE>>
      [] seg.kind = "noargs" -> <<OPEN>> \o json_dumps(JObj(<<KV(<<"name">>, LIGHTRAG_TOOL)>>))
                                \o <<CLOSE>>
      [] seg.kind = "good"   -> <<OPEN, WS>> \o json_dumps(seg.data) \o <<WS, CLOSE>>

RECURSIVE Concat(_)
Concat(segs) == IF segs = <<>> THEN <<>> ELSE SegmentText(Head(segs)) \o Concat(Tail(segs))

SegmentSeqs == UNION {[1..n -> Segments] : n \in 0..MaxSegments}

NativeLists == {<<>>, <<NativeToolCall(1, "lightrag_tool", Args("query", PC))>>}

StockNames == {PC, <<"p", "c">>, <<"A", "L", "L">>}
ModelNames ==
    {JStr(n) : n \in StockNames \cup {<<"a", "l", "l">>, <<"X">>, <<"p">>}} \cup {JNull}
StockItems ==
    [product_name : StockNames, stock_quantity : 0..MaxStock, price : {98, 7}]
StockInventories == UNION {[1..n -> StockItems] : n \in 0..MaxItems}

SearchResults ==
    {JObj(<<KV(<<"title">>, JStr(PC)), KV(<<"body">>, JStr(<<"bike">>)),
            KV(<<"href">>, JStr(<<"http://x">>))>>),
     JObj(<<KV(<<"body">>, JStr(<<"bike">>))>>),
     JObj(<<>>)}
SearchOutcomes ==
    [raised : BOOLEAN, e : {<<"RatelimitException">>},
     results : UNION {[1..n -> SearchResults] : n \in 0..MaxResults}]

EndpointRequests ==
    {[message |-> <<"PC", WS, "in", WS, "stock?">>, chat_history |-> h] : h \in Histories}
KbOutcomes ==
    {[raised |-> TRUE, val |-> <<"ConnectionError">>]}
    \cup {[raised |-> FALSE, val |-> t] :
            t \in {<<"PC", WS, "specs">>,
                   <<"PC", "[1]", WS, "specs", "\n", "### References", "\n", "doc">>,
                   <<WS, "PC", WS, "URL:", "http://x", "\n", "specs", "(1)", "\n">>}}

CallExtractor ==
    /\ fncall = NoCall
    /\ \E segs \in SegmentSeqs, native \in NativeLists :
         fncall' = [fn  |-> "check_tool_call_in_text",
                    arg |-> [segs |-> segs, content |-> Concat(segs), native |-> native],
                    out |-> check_tool_call_in_text(Concat(segs), native)]
    /\ UNCHANGED runvars

\* the same (content, tool_calls) given to the copy in main.py and to the copy
\* in tools.py
CallExtractorCopies ==
    /\ fncall = NoCall
    /\ \E segs \in SegmentSeqs, native \in NativeLists :
         fncall' = [fn  |-> "both_check_tool_call_in_text",
                    arg |-> [segs |-> segs, content |-> Concat(segs), native |-> native],
                    out |-> [main  |-> check_tool_call_in_text(Concat(segs), native),
                             tools |-> tools_check_tool_call_in_text(Concat(segs), native)]]
    /\ UNCHANGED runvars

CallToolsStock ==
    /\ fncall = NoCall
    /\ \E inventory_data \in StockInventories, model_name \in ModelNames :
         fncall' = [fn  |-> "create_check_stock_logic",
                    arg |-> [inventory |-> inventory_data, model_name |-> model_name],
                    out |-> create_check_stock_logic(inventory_data, model_name)]
    /\ UNCHANGED runvars

CallMainStock ==
    /\ fncall = NoCall
    /\ \E inventory \in StockInventories, model_name \in ModelNames :
         fncall' = [fn  |-> "check_stock_logic",
                    arg |-> [inventory |-> inventory, model_name |-> model_name],
                    out |-> check_stock_logic(inventory, model_name)]
    /\ UNCHANGED runvars

CallWebSearch ==
    /\ fncall = NoCall
    /\ \E search \in SearchOutcomes :
         fncall' = [fn  |-> "web_search_tool",
                    arg |-> search,
                    out |-> web_search_tool(search)]
    /\ UNCHANGED runvars

CallQuery ==
    /\ fncall = NoCall
    /\ \E request \in EndpointRequests, kb \in KbOutcomes :
         fncall' = [fn  |-> "query_endpoint",
                    arg |-> [request |-> request, kb |-> kb],
                    out |-> query_endpoint(request, kb)]
    /\ UNCHANGED runvars

CallQuerySale ==
    /\ fncall = NoCall
    /\ \E request \in EndpointRequests, kb \in KbOutcomes :
         fncall' = [fn  |-> "query_sale_endpoint",
                    arg |-> [request |-> request, kb |-> kb],
                    out |-> query_sale_endpoint(request, kb)]
    /\ UNCHANGED runvars

CallExplainProduct ==
    /\ fncall = NoCall
    /\ \E request \in EndpointRequests, kb \in KbOutcomes :
         fncall' = [fn  |-> "explain_product_endpoint",
                    arg |-> [request |-> request, kb |-> kb],
                    out |-> explain_product_endpoint(request, kb)]
    /\ UNCHANGED runvars

LlmSystemPrompts ==
    {<<>>, <<"You are a shop assistant.">>,
     <<"Given the following text, extract", WS, "the keywords.">>,
     <<"Context.", WS, "Identify the high-level keywords">>}
GeminiOutcomes ==
    {[raised |-> TRUE, val |-> <<"ResourceExhausted">>],
     [raised |-> FALSE, val |-> <<"draft", WS, "text">>]}
TyphoonOutcomes ==
    {[raised |-> TRUE, val |-> <<"APIConnectionError">>],
     [raised |-> FALSE, val |-> <<"refined", WS, "text">>]}

CallLlmModelFunc ==
    /\ fncall = NoCall
    /\ \E system_prompt \in LlmSystemPrompts, keyword_extraction \in BOOLEAN,
          gemini \in GeminiOutcomes, typhoon \in TyphoonOutcomes :
         fncall' = [fn  |-> "llm_model_func",
                    arg |-> [system_prompt |-> system_prompt,
                             keyword_extraction |-> keyword_extraction,
                             gemini |-> gemini, typhoon |-> typhoon],
                    out |-> llm_model_func(<<"PC", WS, "specs?">>, system_prompt,
                                           keyword_extraction, gemini, typhoon)]
    /\ UNCHANGED runvars

\* no run_chat request is under way
InitFn == InitWith({}, [r \in Requests |-> RunChatRequest(<<>>, <<>>)], {})

NextFn ==
    \/ CallExtractor
    \/ CallToolsStock
    \/ CallMainStock
    \/ CallWebSearch
    \/ CallQuery
    \/ CallQuerySale
    \/ CallExplainProduct
    \/ CallLlmModelFunc
    \/ CallExtractorCopies

SpecFn == InitFn /\ [][NextFn]_vars

(***************************************************************************)
(* Properties                                                              *)
(***************************************************************************)
\* the request has received at least one completion
Answered(r) == answered[r] # <<>>
Known(call) == call.function.name \in {LIGHTRAG_TOOL, CHECK_STOCK_LOGIC}
HasMarkup(content) == \E i \in DOMAIN content : content[i] = OPEN
\* the last n messages of the transcript of r
LastMessages(r, n) == SubSeq(messages[r], Len(messages[r]) - n + 1, Len(messages[r]))
\* the n messages are the tool-role messages of the calls, in order
ToolMessagesOf(msgs, calls) ==
    /\ Len(msgs) = Len(calls)
    /\ \A i \in DOMAIN calls :
         /\ msgs[i].role = "tool"
         /\ msgs[i].tool_call_id = calls[i].id
         /\ msgs[i].name = calls[i].function.name

\* C1: whenever the last completion carried a non-empty native tool-call list,
\* the extractor returned that list unchanged and run_chat did not take the
\* message for a final answer.
C1_NativeCallsReturned ==
    \A r \in Requests :
        (Answered(r) /\ response_message[r].tool_calls # <<>>)
            => /\ tool_calls[r] = response_message[r].tool_calls
               /\ pc[r] # "finalize"

\* C2: when a turn that extracted N >= 1 calls is over and the next completion
\* is about to be requested, the transcript ends with the proposing assistant
\* message followed by exactly N tool-role messages, one per call, in order,
\* each with the id and name of its call.
C2_OneToolMessagePerCall ==
    \A r \in Requests :
        (pc[r] = "loop" /\ Answered(r))
            => LET n == Len(tool_calls[r])
               IN  /\ Len(messages[r]) >= n + 4
                   /\ messages[r][Len(messages[r]) - n].role = "assistant"
                   /\ messages[r][Len(messages[r]) - n] = response_message[r]
                   /\ ToolMessagesOf(LastMessages(r, n), tool_calls[r])

FALLBACK_APOLOGY == <<"apology">>
\* the request left the loop through the while test after MAX_LOOP tool turns
LoopExhausted(r) ==
    /\ pc[r] = "done"
    /\ result[r].kind # "exception"
    /\ Len(answered[r]) = MAX_LOOP
    /\ \A i \in DOMAIN answered[r] :
         check_tool_call_in_text(answered[r][i].content, answered[r][i].tool_calls) # <<>>

\* C3: a request whose MAX_LOOP turns all requested tools ends with a
\* response whose text is the last assistant message (or the fallback
\* apology), never without a response value.
C3_ExhaustedReturnsLastMessage ==
    \A r \in Requests :
        LoopExhausted(r)
            => /\ result[r].kind = "response"
               /\ result[r].val \in {response_message[r].content, FALLBACK_APOLOGY}

\* C4: the iteration count and the number of tool-offering completions
\* requested never exceed MAX_LOOP.
C4_IterationBound ==
    \A r \in Requests : count[r] <= MAX_LOOP /\ ncompl[r] <= MAX_LOOP

\* a request at the bound: MAX_LOOP completions done, the while test is next
C4_Witness ==
    \E r \in Requests :
        pc[r] = "loop" /\ count[r] = MAX_LOOP /\ ncompl[r] = MAX_LOOP

\* C5: a tool handler that raises never ends the request: no request ends
\* with the exception of a tool handler.
C5_HandlerFailureContained ==
    \A r \in Requests :
        ~(pc[r] = "done" /\ result[r].kind = "exception" /\ result[r].src = "tool")

\* C6: a request one of whose tool-offering completions failed ends with a
\* response (the apology), not with an exception.
C6_CompletionFailureContained ==
    \A r \in Requests :
        (pc[r] = "done" /\ ncompl[r] > Len(answered[r]))
            => result[r].kind = "response"

\* the request reached the finalizer: its last message is the refine
\* instruction over the draft of the last completion
ReachedFinalizer(r) ==
    /\ Answered(r)
    /\ tool_calls[r] = <<>>
    /\ messages[r][Len(messages[r])] = RefineMessage(response_message[r].content)

\* C7: a request that reached the finalizer ends with a response, which is
\* the finalizer's text or, when the finalizer failed, the unrefined draft.
C7_FinalizerFailureReturnsDraft ==
    \A r \in Requests :
        (pc[r] = "done" /\ ReachedFinalizer(r))
            => /\ result[r].kind = "response"
               /\ result[r].val \in FinalTexts \cup {response_message[r].content}

\* C8: every inventory read by check_stock_logic on behalf of a request is
\* that request's own snapshot.
C8_OwnSnapshotRead ==
    \A r \in Requests :
        \A i \in DOMAIN stockReads[r] :
            stockReads[r][i] = req[r].Data_model_stock_price

\* the batch an assistant message asks for: its native list, or the call of
\* its markup
RequestedBatch(m) ==
    IF m.tool_calls # <<>> THEN m.tool_calls
    ELSE check_tool_call_in_text(m.content, <<>>)

\* C9: once a batch holding a call of unknown name has been dealt with without
\* an exception, the transcript ends with the tool-role messages of the
\* batch's calls of known name, in order.
C9_UnknownSkippedOthersExecuted ==
    \A r \in Requests :
        LET batch == RequestedBatch(response_message[r])
        IN  (/\ Answered(r)
             /\ pc[r] \in {"loop", "finalize"}
             /\ \E i \in DOMAIN batch : ~Known(batch[i]))
                => LET known == SelectSeq(batch, Known)
                   IN  /\ Len(messages[r]) >= Len(known)
                       /\ ToolMessagesOf(LastMessages(r, Len(known)), known)

\* C10: a request whose first completion asked for no tool (no native calls,
\* no markup) ends after one iteration, with no tool executed, with the
\* finalizer's answer over that completion's text.
C10_NoToolOneIteration ==
    \A r \in Requests :
        (/\ pc[r] = "done"
         /\ Answered(r)
         /\ answered[r][1].tool_calls = <<>>
         /\ ~HasMarkup(answered[r][1].content))
            => /\ count[r] = 1
               /\ executed[r] = <<>>
               /\ messages[r][Len(messages[r])] = RefineMessage(answered[r][1].content)
               /\ result[r].kind = "response"
               /\ result[r].val \in FinalTexts

\* C11: a completion without native calls whose markup block is malformed
\* yields no calls, and run_chat takes it for the final answer: the request
\* goes to the finalizer with the refine instruction over that text, ends with
\* the finalizer's outcome, and the completion made no tool run.
C11_MalformedMarkupIsFinalAnswer ==
    \A r \in Requests :
        (Answered(r) /\ response_message[r] \in MalformedAnswers)
            => /\ tool_calls[r] = <<>>
               /\ pc[r] \in {"finalize", "done"}
               /\ (pc[r] = "done" =>
                      result[r] \in {Response(t) : t \in FinalTexts} \/ result[r] = Raised("finalizer"))
               /\ messages[r][Len(messages[r])] = RefineMessage(response_message[r].content)
               /\ Len(executed[r]) < Len(answered[r])

\* a request answered from malformed markup
C11_Witness ==
    \E r \in Requests :
        /\ Answered(r)
        /\ response_message[r] \in MalformedAnswers
        /\ pc[r] = "done"
        /\ result[r].kind = "response"

\* every external call of the request returned: no completion, finalizer or
\* tool handler raised
ExternalCallsReturned(r) == result[r].src \notin {"completion", "finalizer", "tool"}
\* the terminal states of the orchestrator: the final answer, or the while
\* test failing after MAX_LOOP turns
InTerminalState(r) == result[r].kind \in {"response", "none"}

\* C12: a request whose external calls all returned ends in DONE or
\* LOOP_EXHAUSTED: once it has left run_chat it is in one of the two, since a
\* request that left in any other way never reaches them.
C12_EndsDoneOrExhausted ==
    \A r \in Requests :
        (pc[r] = "done" /\ ExternalCallsReturned(r)) => InTerminalState(r)

IsPrefix(a, b) == Len(a) <= Len(b) /\ SubSeq(b, 1, Len(a)) = a

\* C16: every step of a run leaves the transcript of each request an
\* extension of what it was: no message is removed, reordered or rewritten.
C16_TranscriptAppendOnly ==
    [][\A r \in Requests : IsPrefix(messages[r], messages'[r])]_vars

\* a transcript that grew by two tool turns and is about to grow again
C16_Witness ==
    \E r \in Requests :
        /\ pc[r] = "loop"
        /\ Len(answered[r]) = 2
        /\ Len(messages[r]) > Len(SeedMessages(req[r])) + 2

\* the call ids an assistant message carries: those of its native calls, or
\* the placeholder when it has none and its text holds tool-call markup
CarriedIds(m) ==
    IF m.tool_calls # <<>> THEN {m.tool_calls[i].id : i \in DOMAIN m.tool_calls}
    ELSE IF HasMarkup(m.content) THEN {CALL_FAKE_ID}
    ELSE {}
\* the positions of the assistant messages before position i
AssistantsBefore(msgs, i) == {j \in 1..(i - 1) : msgs[j].role = "assistant"}

\* C18: every tool-role message of a transcript comes after an assistant
\* message, and its tool_call_id is the id of a call carried by the nearest
\* assistant message before it (the placeholder id on the text-fallback path).
C18_ToolMessagePaired ==
    \A r \in Requests : \A i \in DOMAIN messages[r] :
        messages[r][i].role = "tool"
            => /\ AssistantsBefore(messages[r], i) # {}
               /\ LET j == CHOOSE k \in AssistantsBefore(messages[r], i) :
                               \A l \in AssistantsBefore(messages[r], i) : l <= k
                  IN  messages[r][i].tool_call_id \in CarriedIds(messages[r][j])

\* a transcript with the tool messages of two markup turns
C18_Witness ==
    \E r \in Requests : \E i, j \in DOMAIN messages[r] :
        /\ i < j
        /\ messages[r][i].role = "tool"
        /\ messages[r][j].role = "tool"
        /\ messages[r][j].tool_call_id = CALL_FAKE_ID

RECURSIVE CountAtom(_, _)
\* how often the atom a occurs in the text
CountAtom(text, a) ==
    IF text = <<>> THEN 0
    ELSE (IF Head(text) = a THEN 1 ELSE 0) + CountAtom(Tail(text), a)
\* sub occurs in text as a run of consecutive atoms
Infix(sub, text) ==
    \E i \in 0..(Len(text) - Len(sub)) : SubSeq(text, i + 1, i + Len(sub)) = sub
ALL == <<"A", "L", "L">>
\* the call was of the stock tool fn with a string for model_name
StockCall(fn) == fncall.fn = fn /\ fncall.arg.model_name.t = "str"
\* the text is the full listing of the inventory, one line per item
IsListing(text, inventory) ==
    /\ SubSeq(text, 1, Len(LISTING_HEADER)) = LISTING_HEADER
    /\ CountAtom(text, "- ") = Len(inventory)
    /\ \A i \in DOMAIN inventory : Infix(<<"- ">> \o inventory[i].product_name, text)

\* C13: the inventory lookup tool of src/lib/tools.py called with "ALL" in any
\* letter case returns the full listing, one line per item, whatever the
\* inventory holds (the empty inventory included).
C13_AllReturnsListing ==
    (StockCall("create_check_stock_logic") /\ Upper(fncall.arg.model_name.s) = ALL)
        => /\ ~fncall.out.raised
           /\ IsListing(fncall.out.val, fncall.arg.inventory)

\* the items whose name is the requested one ignoring letter case / exactly
Matches(inventory, name) ==
    {i \in DOMAIN inventory : Lower(inventory[i].product_name) = Lower(name)}
Equals(inventory, name) == {i \in DOMAIN inventory : inventory[i].product_name = name}
First(S) == CHOOSE i \in S : \A j \in S : i <= j
HasAtom(text, atoms) == \E i \in DOMAIN text : text[i] \in atoms
\* an "available" result with the price and the stock of the item
IsAvailable(text, item) ==
    /\ \E label \in {", Price: ", " | Price: "} : Infix(<<label>> \o IntText(item.price), text)
    /\ \E label \in {", Stock: ", " baht | Stock: "} :
           Infix(<<label>> \o IntText(item.stock_quantity), text)
\* an out-of-stock result with the instruction to ask the knowledge base
IsOutOfStock(text) ==
    /\ HasAtom(text, {", status: Out of Stock, SYSTEM_INSTRUCTION: ", "Out of Stock | Model: "})
    /\ HasAtom(text, {"call lightrag_tool with query ",
                      " | INSTRUCTION: Call lightrag_tool(query='"})
IsNotFound(text) == HasAtom(text, {" not found in inventory.", " not in inventory."})
\* the result is the one of the item: available or out of stock by its stock
IsResultOf(text, item) ==
    IF item.stock_quantity > 0
    THEN IsAvailable(text, item) /\ ~IsOutOfStock(text) /\ ~IsNotFound(text)
    ELSE IsOutOfStock(text) /\ ~IsNotFound(text)
\* the first item matching ignoring case decides; without a match, not found
ByFirstMatch(text, inventory, name) ==
    IF Matches(inventory, name) = {} THEN IsNotFound(text)
    ELSE IsResultOf(text, inventory[First(Matches(inventory, name))])

\* C14 (as the code has it): for a string model name, the first inventory
\* item whose product_name equals it ignoring letter case decides the result of
\* both stock tools: available with that item's price and stock when its stock
\* is > 0, out of stock with the knowledge-base instruction otherwise, and not
\* found when no item matches; in src/lib/tools.py the name ALL on an
\* inventory whose first item does not match gives the listing instead.  A
\* model name that is no string is not found on the empty inventory and makes
\* the tool raise on any other.
C14_FirstMatchDecides ==
    /\ (fncall.fn \in {"check_stock_logic", "create_check_stock_logic"}
          /\ fncall.arg.model_name.t # "str")
         => IF fncall.arg.inventory = <<>>
            THEN ~fncall.out.raised /\ IsNotFound(fncall.out.val)
            ELSE fncall.out.raised
    /\ StockCall("check_stock_logic")
         => /\ ~fncall.out.raised
            /\ ByFirstMatch(fncall.out.val, fncall.arg.inventory, fncall.arg.model_name.s)
    /\ StockCall("create_check_stock_logic")
         => /\ ~fncall.out.raised
            /\ IF /\ Upper(fncall.arg.model_name.s) = ALL
                  /\ fncall.arg.inventory # <<>>
                  /\ 1 \notin Matches(fncall.arg.inventory, fncall.arg.model_name.s)
               THEN IsListing(fncall.out.val, fncall.arg.inventory)
               ELSE ByFirstMatch(fncall.out.val, fncall.arg.inventory,
                                 fncall.arg.model_name.s)

\* a call where an item of the requested name has stock, an earlier item whose
\* name differs from it in letter case has none, and the result is out of stock
C14_Witness ==
    /\ StockCall("check_stock_logic")
    /\ \E i \in Equals(fncall.arg.inventory, fncall.arg.model_name.s) :
           fncall.arg.inventory[i].stock_quantity > 0
    /\ First(Matches(fncall.arg.inventory, fncall.arg.model_name.s))
           \notin Equals(fncall.arg.inventory, fncall.arg.model_name.s)
    /\ IsOutOfStock(fncall.out.val)

\* C14 (as stated): when the inventory has an item whose name equals the
\* requested name, the result is the one of such an item (available with its
\* price and stock, or out of stock with the instruction); when no item
\* matches, even ignoring letter case, the result is not found.
C14_EqualNameDecides ==
    \A fn \in {"check_stock_logic", "create_check_stock_logic"} :
        StockCall(fn)
            => LET E == Equals(fncall.arg.inventory, fncall.arg.model_name.s)
                   M == Matches(fncall.arg.inventory, fncall.arg.model_name.s)
               IN  /\ ~fncall.out.raised
                   /\ E # {} => \E i \in E : IsResultOf(fncall.out.val, fncall.arg.inventory[i])
                   /\ M = {} => IsNotFound(fncall.out.val)

\* C15: web_search_tool returns a text for every outcome of the search
\* backend and never raises: the failure text naming the exception when the
\* backend raised, the fixed no-results text when it yielded nothing, and the
\* header with one numbered entry per result otherwise.
C15_WebSearchAlwaysReturnsText ==
    fncall.fn = "web_search_tool"
        => /\ ~fncall.out.raised
           /\ IF fncall.arg.raised
              THEN fncall.out.val = SEARCH_FAILED \o fncall.arg.e
              ELSE IF fncall.arg.results = <<>>
              THEN fncall.out.val = SEARCH_NOTHING
              ELSE /\ SubSeq(fncall.out.val, 1, Len(SEARCH_HEADER)) = SEARCH_HEADER
                   /\ CountAtom(fncall.out.val, "\n   link: ") = Len(fncall.arg.results)
                   /\ \A i \in DOMAIN fncall.arg.results :
                          Infix(IntText(i) \o <<". ">>, fncall.out.val)

\* the backend raised after it had yielded results, and a text came back
C15_Witness ==
    /\ fncall.fn = "web_search_tool"
    /\ fncall.arg.raised
    /\ fncall.arg.results # <<>>
    /\ ~fncall.out.raised

ENDPOINTS == {"query_endpoint", "query_sale_endpoint", "explain_product_endpoint"}

\* C17: when the knowledge-base query of /query, /query_sale or
\* /explain_product fails, the endpoint answers with an HTTP 500 error whose
\* detail is the failure's text: no success body, no escaping exception.
C17_KbFailureIsHttp500 ==
    (fncall.fn \in ENDPOINTS /\ fncall.arg.kb.raised)
        => /\ fncall.out.status = 500
           /\ fncall.out.detail = fncall.arg.kb.val
           /\ "response" \notin DOMAIN fncall.out

\* /query called while the knowledge base fails
C17_Witness ==
    /\ fncall.fn = "query_endpoint"
    /\ fncall.arg.kb.raised
    /\ fncall.arg.request.chat_history # <<>>
    /\ fncall.out.status = 500

\* the pieces that hold an opening tag / that are well-formed blocks
WithOpen(segs) == {i \in DOMAIN segs : segs[i].kind \in {"open", "bad", "noargs", "good"}}
WellFormed(segs) == {i \in DOMAIN segs : segs[i].kind = "good"}
\* the extractor was called with an empty native list
FallbackCall == fncall.fn = "check_tool_call_in_text" /\ fncall.arg.native = <<>>
\* calls is exactly one call with the placeholder id, made from the block
IsCallOf(calls, block) ==
    /\ Len(calls) = 1
    /\ calls[1].id = <<"call_fake_123">>
    /\ calls[1].function.name = Item(block.data, <<"name">>)
    /\ calls[1].function.arguments = json_dumps(Item(block.data, <<"arguments">>))

\* C20 (as the code has it): with an empty native list, the extractor looks
\* at the first block only, from the first opening tag to the first closing
\* tag after it: when that is a well-formed block it returns exactly one call
\* with the id call_fake_123 and the block's name and arguments; otherwise it
\* returns none, whatever follows.
C20_FirstBlockDecides ==
    FallbackCall
        => LET segs == fncall.arg.segs
           IN  IF WithOpen(segs) # {} /\ First(WithOpen(segs)) \in WellFormed(segs)
               THEN IsCallOf(fncall.out, segs[First(WithOpen(segs))])
               ELSE fncall.out = <<>>

\* a text with two different well-formed blocks, answered with one call
C20_Witness ==
    /\ FallbackCall
    /\ \E i, j \in WellFormed(fncall.arg.segs) :
           i < j /\ fncall.arg.segs[i] # fncall.arg.segs[j]
    /\ Len(fncall.out) = 1

\* C20 (as stated): with an empty native list and a text holding at least one
\* well-formed block, the extractor returns exactly one call, made from the
\* first well-formed block, with the id call_fake_123 and the block's name.
C20_FirstWellFormedBlockExtracted ==
    (FallbackCall /\ WellFormed(fncall.arg.segs) # {})
        => IsCallOf(fncall.out, fncall.arg.segs[First(WellFormed(fncall.arg.segs))])

(***************************************************************************)
(* The loop as the specification describes it: AWAITING_COMPLETION asks    *)
(* for a completion; with calls present the Turn Executor runs and then    *)
(* the iteration count is incremented, and the machine asks again only     *)
(* while the count is below the bound; without calls it is DONE.           *)
(***************************************************************************)
\* the completion proposes calls: a native list, or well-formed markup
CallsPresent(m) == m.tool_calls # <<>> \/ check_tool_call_in_text(m.content, <<>>) # <<>>

MachineStart ==
    [state |-> "AWAITING_COMPLETION", iteration |-> 0, completions |-> 0, turns |-> 0]

RECURSIVE Machine(_, _)
\* the specified machine in state st, fed the completions in order
Machine(completions, st) ==
    IF st.state # "AWAITING_COMPLETION" \/ completions = <<>> THEN st
    ELSE IF CallsPresent(Head(completions))
    THEN Machine(Tail(completions),
                 [state |-> IF st.iteration + 1 < MAX_LOOP
                            THEN "AWAITING_COMPLETION" ELSE "LOOP_EXHAUSTED",
                  iteration |-> st.iteration + 1,
                  completions |-> st.completions + 1,
                  turns |-> st.turns + 1])
    ELSE [state |-> "DONE", iteration |-> st.iteration,
          completions |-> st.completions + 1, turns |-> st.turns]

\* the tool turns of the code: the completions it extracted calls from
RECURSIVE CodeTurns(_)
CodeTurns(completions) ==
    IF completions = <<>> THEN 0
    ELSE (IF check_tool_call_in_text(Head(completions).content,
                                     Head(completions).tool_calls) # <<>> THEN 1 ELSE 0)
         + CodeTurns(Tail(completions))
\* the kind of state the code stopped in
CodeTerminal(r) ==
    CASE result[r].kind = "response" -> "DONE"
      [] result[r].kind = "none"     -> "LOOP_EXHAUSTED"
      [] OTHER                       -> "EXCEPTION"

\* C19: when a request whose external calls all returned has left run_chat,
\* the specified machine fed the same completions made as many completions and
\* tool turns as the code and stopped in the same kind of terminal state.
C19_AccountingMatchesMachine ==
    \A r \in Requests :
        (pc[r] = "done" /\ ExternalCallsReturned(r))
            => LET m == Machine(answered[r], MachineStart)
               IN  /\ m.completions = ncompl[r]
                   /\ m.turns = CodeTurns(answered[r])
                   /\ m.state = CodeTerminal(r)

\* the message has no native calls, and its text is empty, has no opening
\* tag, or has no closing tag after any of its opening tags
NoBlock(m) ==
    /\ m.tool_calls = <<>>
    /\ \A i \in DOMAIN m.content :
           m.content[i] = OPEN
               => \A j \in DOMAIN m.content : j > i => m.content[j] # CLOSE

\* C21: a completion without native calls whose text is empty, has no opening
\* tag, or has an opening tag without a closing tag after it yields no calls,
\* and run_chat takes it for the final answer: the request goes to the
\* finalizer with the refine instruction over that text and ends with the
\* finalizer's outcome.
C21_NoBlockIsFinalAnswer ==
    \A r \in Requests :
        (Answered(r) /\ NoBlock(response_message[r]))
            => /\ tool_calls[r] = <<>>
               /\ pc[r] \in {"finalize", "done"}
               /\ (pc[r] = "done" =>
                      result[r] \in {Response(t) : t \in FinalTexts} \/ result[r] = Raised("finalizer"))
               /\ messages[r][Len(messages[r])] = RefineMessage(response_message[r].content)

\* a request answered from a text with an opening tag and no closing tag
C21_Witness ==
    \E r \in Requests :
        /\ Answered(r)
        /\ NoBlock(response_message[r])
        /\ HasMarkup(response_message[r].content)
        /\ pc[r] = "done"
        /\ result[r].kind = "response"

\* the text is the history message of the chat: its heading and, for a
\* non-empty chat, the frame with one "role: content" line per message
IsHistorySummary(text, chat) ==
    /\ text # <<>>
    /\ Head(text) = "Here is the chat history:"
    /\ chat = <<>> => Len(text) = 1
    /\ CountAtom(text, ": ") = Len(chat)
    /\ \A i \in DOMAIN chat :
           \E display \in {"User", "AI"} :
               /\ display = "User" <=> Lower(chat[i].role) = <<"user">>
               /\ Infix(<<display, ": ">> \o chat[i].content \o <<"\n">>, text)

\* C22: when the first completion of a request is about to be asked for, the
\* transcript is exactly the system prompt message, the history message and
\* the user's message, in this order; they stay its first three messages.
C22_InitialTranscript ==
    \A r \in Requests :
        pc[r] \notin {"absent", "pending"}
            => /\ Len(messages[r]) >= 3
               /\ (pc[r] = "loop" /\ ncompl[r] = 0) => Len(messages[r]) = 3
               /\ messages[r][1] = [role |-> "system", content |-> SYSTEM_PROMPT]
               /\ messages[r][2].role = "user"
               /\ IsHistorySummary(messages[r][2].content, req[r].chat_history)
               /\ messages[r][3] = [role |-> "user", content |-> req[r].message]

\* a request with prior history about to ask for its first completion
C22_Witness ==
    \E r \in Requests :
        /\ pc[r] = "loop"
        /\ ncompl[r] = 0
        /\ req[r].chat_history # <<>>
        /\ Len(messages[r]) = 3

\* the items whose name holds the requested one, ignoring letter case
Containing(inventory, name) ==
    {i \in DOMAIN inventory : Infix(Lower(name), Lower(inventory[i].product_name))}

\* C23: for a requested name that is, ignoring letter case, a substring of the
\* product_name of some item, both stock tools return the availability result
\* (available or out of stock) of such an item, not the not-found result.
C23_SubstringMatch ==
    \A fn \in {"check_stock_logic", "create_check_stock_logic"} :
        (StockCall(fn)
           /\ Containing(fncall.arg.inventory, fncall.arg.model_name.s) # {})
            => /\ ~fncall.out.raised
               /\ ~IsNotFound(fncall.out.val)
               /\ \E i \in Containing(fncall.arg.inventory, fncall.arg.model_name.s) :
                      IsResultOf(fncall.out.val, fncall.arg.inventory[i])

\* the finalizer was called for the request: it is being asked, or the
\* request ended with its text or its failure
FinalizerCalled(r) ==
    \/ pc[r] = "finalize"
    \/ pc[r] = "done" /\ (result[r].kind = "response" \/ result[r] = Raised("finalizer"))

\* C24: the finalizer is called only after a completion that proposes no tool
\* call, native or markup, with the refine instruction over the draft of that
\* completion as the last message, and a response is returned only by it.
C24_FinalizerOnlyAfterNoCalls ==
    \A r \in Requests :
        /\ FinalizerCalled(r)
             => /\ Answered(r)
                /\ ~CallsPresent(response_message[r])
                /\ messages[r][Len(messages[r])] = RefineMessage(response_message[r].content)
        /\ result[r].kind = "response" => result[r].val \in FinalTexts

LlmCall == fncall.fn = "llm_model_func"
\* the task is a keyword extraction: the flag, or a marker phrase in the prompt
KeywordTask ==
    \/ fncall.arg.keyword_extraction
    \/ HasAtom(fncall.arg.system_prompt, KEYWORD_MARKERS)

\* C25: llm_model_func returns a text and never raises: when the model call of
\* a keyword extraction fails it returns "Error in keyword extraction", and
\* when the draft call or the refinement call of an answer fails it returns
\* the apology.
C25_LlmNeverRaises ==
    LlmCall
        => /\ ~fncall.out.raised
           /\ (KeywordTask /\ fncall.arg.gemini.raised)
                 => fncall.out.val = KEYWORD_ERROR
           /\ (~KeywordTask /\ (fncall.arg.gemini.raised \/ fncall.arg.typhoon.raised))
                 => fncall.out.val = LLM_APOLOGY

\* an answer task whose draft succeeded and whose refinement failed
C25_Witness ==
    /\ LlmCall
    /\ ~KeywordTask
    /\ ~fncall.arg.gemini.raised
    /\ fncall.arg.typhoon.raised
    /\ fncall.out.val = LLM_APOLOGY

\* C27: a keyword extraction makes one model call, to gemini, and no
\* refinement call; any other task makes the draft call to gemini first, the
\* refinement call to typhoon second and only when the draft call returned,
\* over the draft it returned, and on success returns the refinement's text.
C27_ModelCallOrder ==
    LlmCall
        => LET calls == fncall.out.calls
           IN  IF KeywordTask
               THEN /\ Len(calls) = 1
                    /\ calls[1].model = "gemini"
                    /\ ~fncall.arg.gemini.raised => fncall.out.val = fncall.arg.gemini.val
               ELSE /\ Len(calls) = IF fncall.arg.gemini.raised THEN 1 ELSE 2
                    /\ calls[1].model = "gemini"
                    /\ Len(calls) = 2
                         => /\ calls[2].model = "typhoon"
                            /\ Infix(fncall.arg.gemini.val, calls[2].prompt)
                    /\ (~fncall.arg.gemini.raised /\ ~fncall.arg.typhoon.raised)
                         => fncall.out.val = fncall.arg.typhoon.val

\* a keyword task known by its prompt alone, the flag not set
C27_Witness ==
    /\ LlmCall
    /\ ~fncall.arg.keyword_extraction
    /\ KeywordTask
    /\ Len(fncall.out.calls) = 1

CopiesCall == fncall.fn = "both_check_tool_call_in_text"

\* C26: given the same text and the same native list, the extractor of
\* src/main.py and the extractor of src/lib/tools.py both yield no calls, or
\* both yield lists of calls with the same ids, names and arguments.
C26_ExtractorCopiesAgree ==
    CopiesCall
        => LET main  == fncall.out.main
               tools == fncall.out.tools
           IN  /\ (main = <<>>) <=> (tools = <<>>)
               /\ Len(main) = Len(tools)
               /\ \A i \in DOMAIN main :
                    /\ main[i].id = tools[i].id
                    /\ main[i].function.name = tools[i].function.name
                    /\ main[i].function.arguments = tools[i].function.arguments

\* both copies synthesized a call from a block of the text
C26_Witness ==
    /\ CopiesCall
    /\ fncall.arg.native = <<>>
    /\ fncall.out.main # <<>>
    /\ fncall.out.tools # <<>>

\* the (name, arguments) pairs of the well-formed blocks the completions carry
RoundTripBlocks ==
    {[name |-> n, args |-> a] :
        n \in {"lightrag_tool", "check_stock_logic", "web_search_tool"},
        a \in {Args("query", PC), Args("model_name", <<"p", "c">>),
               Args("model_name", <<"X">>), JObj(<<>>), JArr(<<>>)}}

\* the completion of request r carried the block b as markup and no native call
CarriesBlock(r, b) ==
    response_message[r] = Markup(json_dumps(ToolData(b.name, b.args)))

\* C28: on the text-fallback path, when run_chat handles the call synthesized
\* from a well-formed block, json.loads of the call's arguments string
\* succeeds and gives the value of the "arguments" key of the block's object.
C28_ArgumentsRoundTrip ==
    \A r \in Requests : \A b \in RoundTripBlocks :
        (pc[r] \in {"exec", "await_rag"} /\ CarriesBlock(r, b))
            => /\ Len(tool_calls[r]) = 1
               /\ tool_call(r).id = CALL_FAKE_ID
               /\ function_args(r).ok
               /\ function_args(r).val = b.args

\* the handler of lightrag_tool is running on the arguments of a block
C28_Witness ==
    \E r \in Requests :
        /\ pc[r] = "await_rag"
        /\ CarriesBlock(r, [name |-> "lightrag_tool", args |-> Args("query", PC)])
        /\ function_args(r).val = Args("query", PC)

=============================================================================
